---- MODULE Spec2Model ----
(***************************************************************************)
(* Model of csound::CSound (inst/include/csound/Csound.hxx): the lock-free *)
(* event queue, the two event classes, the performance thread routine and  *)
(* the host-side lifecycle calls create / perform / stop / destroy and the *)
(* destructor.                                                             *)
(*                                                                         *)
(* One host (control) thread issues the lifecycle calls one at a time.     *)
(* Any thread (the host, or one of the Producers) may call readScore and   *)
(* scoreEvent.  Each spawned std::thread runs performanceThreadRoutine     *)
(* and is modelled statement by statement.  is_running is a plain char     *)
(* shared by the host and the performance thread; its accesses are         *)
(* modelled as interleaved single reads and writes.                        *)
(***************************************************************************)
EXTENDS Integers, Sequences, FiniteSets, TLC

\* ---------------------------------------------------------------- bounds
Producers == {"p1", "p2"}
Host == "host"
Pushers == Producers \cup {Host}
\* submissions per producer thread in the concurrent-producers scenario
PerProducer == 2
\* submissions by the host thread in the single-thread scenario
HostCmds == 3
\* submissions by one producer in the lifecycle scenario
LifeCmds == 1
MaxPerform == 2
MaxCreate == 1
\* width in bits of the C++ int pfield_count, scaled down from 32
IntBits == 3
\* the caller's pfields buffer and the counts tried with it
Buffer == <<1, 0, 1>>
Counts == {0, 2}
Opcodes == {"i"}
\* what an out-of-bounds read of the empty vector may yield
Garbage == {0, 9}

Threads == 1..MaxPerform
Engines == 1..MaxCreate

VARIABLES
    csound,              \* CSOUND *csound: 0 is the null pointer
    is_running,          \* char is_running
    csound_event_queue,  \* the lock-free queue of CsoundThreadEvent *
    performance_thread,  \* std::thread *performance_thread: 0 is null
    tpc,                 \* position of each std::thread in the routine
    is_finished,         \* the routine's local int is_finished
    hop,                 \* the host call in progress
    hpc,                 \* the host's position inside that call
    temp,                \* stop()'s local int temp
    hret,                \* the last host call that returned, and its value
    nthreads,            \* number of std::thread objects constructed
    ncreated,            \* number of csoundCreate calls
    destroyCount,        \* csoundDestroy calls per engine handle: 0, 1, or
                         \* 2 for "more than once" (a double free)
    sent,                \* readScore/scoreEvent calls made per thread
    calls,               \* history: the arguments of every submit call
    applied,             \* history: events applied to the Engine, in order
    discarded,           \* history: events deleted by the shutdown drain
    late,                \* history: events pushed while stop() was waiting
    stray,               \* history: an event was pushed outside the loop
    early,               \* history: events the host pushed while no thread
                         \* was active
    apply_err,           \* history: commands applied in the iteration in
                         \* progress from the first one that returned an
                         \* error code on (counted up to 2)
    since,               \* history: renderBlock calls begun since the stop()
                         \* in progress cleared is_running (counted up to 2)
    born,                \* history: was the thread's perform() called right
                         \* after a stop() call had returned
    quota,               \* scenario: submissions each thread will make
    performs,            \* scenario: perform() calls the host will make
    rejects              \* scenario: may the Engine reject a command

vars == <<csound, is_running, csound_event_queue, performance_thread, tpc,
          is_finished, hop, hpc, temp, hret, nthreads, ncreated,
          destroyCount, sent, calls, applied, discarded, late, stray,
          early, apply_err, since, born, quota, performs,
          rejects>>

hostVars == <<csound, performance_thread, hop, hpc, temp, hret, nthreads,
              ncreated, destroyCount>>
threadVars == <<tpc, is_finished>>
logVars == <<applied, discarded>>
pushVars == <<sent, calls, late, stray, early>>
histVars == <<apply_err, since>>
planVars == <<quota, performs, rejects>>

\* ------------------------------------------------------------- helpers
IntMax == 2 ^ (IntBits - 1) - 1
IntMin == 0 - 2 ^ (IntBits - 1)

\* ++pfield_count on an int of IntBits bits, wrapping
WrapInc(c) == IF c = IntMax THEN IntMin ELSE c + 1

\* the constructor's loop: i stays 0, pfield_count is what is incremented,
\* and the value pushed is the member vector's own element 0
RECURSIVE CtorLoop(_, _, _)
CtorLoop(pf, cnt, g) ==
    IF 0 < cnt
    THEN CtorLoop(Append(pf, IF Len(pf) > 0 THEN pf[1] ELSE g), WrapInc(cnt), g)
    ELSE pf

CsoundThreadEventScoreEvent(opcode_, pfields_, pfield_count, g) ==
    [kind |-> "ScoreEvent", opcode |-> opcode_,
     pfields |-> CtorLoop(<<>>, pfield_count, g)]

CsoundThreadEventScore(score_) ==
    [kind |-> "Score", opcode |-> "-", pfields |-> <<>>]

\* a push that links the new event in at the consumer's end
QueuePushFront(q, e) == <<e>> \o q
\* csound_event_queue.push: the event is linked in behind those queued
QueuePush(q, e) == Append(q, e)
\* csound_event_queue.pop hands out the oldest event queued ...
QueueFront(q) == Head(q)
\* a pop that hands the event out and leaves it queued
QueuePopKeep(q) == q
\* ... and unlinks it
QueuePop(q) == Tail(q)

\* a std::thread that has been started and has not yet returned
Active(t) == tpc[t] \notin {"unborn", "done", "joined"}
\* a std::thread inside the while loop of the routine
InLoop(t) == tpc[t] \in {"while", "pop", "render"}
\* a std::thread that exists and has not been joined
Unjoined(t) == tpc[t] \notin {"unborn", "joined"}
InStop == hpc \in {"stop_read", "stop_write", "stop_join"}

Id(e) == <<e.src, e.n>>

\* ---------------------------------------------------------------- Init
\* the state after CSound::CSound(), with the scenario still open
Constructed ==
    /\ is_running = 0
    /\ csound_event_queue = <<>>
    /\ performance_thread = 0
    /\ tpc = [t \in Threads |-> "unborn"]
    /\ is_finished = [t \in Threads |-> 0]
    /\ hop = "none"
    /\ hpc = "idle"
    /\ temp = 0
    /\ hret = [op |-> "none", val |-> 0, active |-> FALSE]
    /\ nthreads = 0
    /\ destroyCount = [e \in Engines |-> 0]
    /\ sent = [p \in Pushers |-> 0]
    /\ calls = {}
    /\ applied = <<>>
    /\ discarded = <<>>
    /\ late = {}
    /\ stray = FALSE
    /\ early = {}
    /\ apply_err = 0
    /\ since = 0
    /\ born = [t \in Threads |-> FALSE]

\* lifecycle scenario: a fresh controller, one producer thread
Init ==
    /\ Constructed
    /\ csound = 0
    /\ ncreated = 0
    /\ quota = [p \in Pushers |-> IF p = "p1" THEN LifeCmds ELSE 0]
    /\ performs = MaxPerform
    /\ rejects = FALSE

\* lifecycle-only scenario: a fresh controller, nothing is submitted
InitLifecycle ==
    /\ Constructed
    /\ csound = 0
    /\ ncreated = 0
    /\ quota = [p \in Pushers |-> 0]
    /\ performs = MaxPerform
    /\ rejects = FALSE

\* single-thread scenario: create() has run, the host submits everything
InitHost ==
    /\ Constructed
    /\ csound = 1
    /\ ncreated = 1
    /\ quota = [p \in Pushers |-> IF p = Host THEN HostCmds ELSE 0]
    /\ performs = 1
    /\ rejects = FALSE

\* concurrent-producers scenario: create() has run, the producers submit,
\* and the Engine may reject what they submit
InitProducers ==
    /\ Constructed
    /\ csound = 1
    /\ ncreated = 1
    /\ quota = [p \in Pushers |-> IF p \in Producers THEN PerProducer ELSE 0]
    /\ performs = 1
    /\ rejects = TRUE

\* ------------------------------------------------ submitting (any thread)
CanSubmit(p) ==
    /\ hpc # "dead"
    /\ p = Host => hpc = "idle"
    /\ sent[p] < quota[p]

\* csound_event_queue.push(new ...), with the history it leaves
Push(p, ev, call) ==
    LET e == [src |-> p, n |-> sent[p] + 1, kind |-> ev.kind,
              opcode |-> ev.opcode, pfields |-> ev.pfields]
    IN /\ csound_event_queue' = QueuePush(csound_event_queue, e)
       /\ sent' = [sent EXCEPT ![p] = @ + 1]
       /\ calls' = calls \cup {[src |-> p, n |-> sent[p] + 1] @@ call}
       /\ late' = IF InStop /\ \E t \in Threads : Active(t)
                  THEN late \cup {<<p, sent[p] + 1>>} ELSE late
       /\ stray' = (stray \/ ~ \E t \in Threads : InLoop(t))
       /\ early' = IF p = Host /\ ~ \E t \in Threads : Active(t)
                   THEN early \cup {<<p, sent[p] + 1>>} ELSE early

readScore(p) ==
    /\ CanSubmit(p)
    /\ Push(p, CsoundThreadEventScore(<<p, sent[p] + 1>>),
            [kind |-> "Score", opcode |-> "-", count |-> 0])
    /\ UNCHANGED <<is_running, hostVars, threadVars, logVars, planVars, born, histVars>>

\* scoreEvent either returns with the event pushed, or (pfield_count > 0)
\* the constructor's runaway loop exhausts memory and nothing is pushed
scoreEvent(p) ==
    /\ CanSubmit(p)
    /\ \E opcode \in Opcodes, pfield_count \in Counts :
         LET call == [kind |-> "ScoreEvent", opcode |-> opcode,
                      count |-> pfield_count]
         IN \/ \E g \in Garbage :
                 Push(p, CsoundThreadEventScoreEvent(opcode, Buffer,
                                                     pfield_count, g), call)
            \/ /\ pfield_count > 0
               /\ sent' = [sent EXCEPT ![p] = @ + 1]
               /\ calls' = calls \cup {[src |-> p, n |-> sent[p] + 1] @@ call}
               /\ UNCHANGED <<csound_event_queue, late, stray, early>>
    /\ UNCHANGED <<is_running, hostVars, threadVars, logVars, planVars, born, histVars>>

\* ------------------------------------------- performanceThreadRoutine
\* a routine written as do ... while: it renders a block before it drains
ThreadEnterRenderFirst(t) ==
    /\ tpc[t] = "guard"
    /\ IF is_running # 0
       THEN /\ tpc' = [tpc EXCEPT ![t] = "done"]
            /\ UNCHANGED <<is_running, is_finished>>
       ELSE /\ is_running' = 1
            /\ is_finished' = [is_finished EXCEPT ![t] = 0]
            /\ tpc' = [tpc EXCEPT ![t] = "render"]
    /\ UNCHANGED <<csound_event_queue, hostVars, logVars, pushVars, planVars,
                   born, histVars>>

\* lines 196-201: the entry guard, then is_running = 1
ThreadEnter(t) ==
    /\ tpc[t] = "guard"
    /\ IF is_running # 0
       THEN /\ tpc' = [tpc EXCEPT ![t] = "done"]
            /\ UNCHANGED <<is_running, is_finished>>
       ELSE /\ is_running' = 1
            /\ is_finished' = [is_finished EXCEPT ![t] = 0]
            /\ tpc' = [tpc EXCEPT ![t] = "while"]
    /\ UNCHANGED <<csound_event_queue, hostVars, logVars, pushVars, planVars,
                   born, histVars>>

\* a loop test that looks at is_running only
ThreadWhileRunning(t) ==
    /\ tpc[t] = "while"
    /\ tpc' = [tpc EXCEPT ![t] = IF is_running = 1 THEN "pop" ELSE "cleanup"]
    /\ apply_err' = 0
    /\ UNCHANGED <<is_running, csound_event_queue, is_finished, hostVars,
                   logVars, pushVars, planVars, born, since>>

\* a loop test that gives up after a command that returned an error
ThreadWhileNoError(t) ==
    /\ tpc[t] = "while"
    /\ tpc' = [tpc EXCEPT ![t] =
                  IF is_running = 1 /\ is_finished[t] = 0 /\ apply_err = 0
                  THEN "pop" ELSE "cleanup"]
    /\ apply_err' = 0
    /\ UNCHANGED <<is_running, csound_event_queue, is_finished, hostVars,
                   logVars, pushVars, planVars, born, since>>

\* line 202: the loop test
ThreadWhile(t) ==
    /\ tpc[t] = "while"
    /\ tpc' = [tpc EXCEPT ![t] =
                  IF is_running = 1 /\ is_finished[t] = 0 THEN "pop" ELSE "cleanup"]
    /\ apply_err' = 0
    /\ UNCHANGED <<is_running, csound_event_queue, is_finished, hostVars,
                   logVars, pushVars, planVars, born, since>>

\* what csoundReadScore / csoundScoreEvent may return: 0, or an error code
Results == IF rejects THEN {0, 1} ELSE {0}

\* apply_err once a command has been applied and has returned r
AfterApply(r) == IF apply_err = 0 THEN (IF r # 0 THEN 1 ELSE 0) ELSE 2

\* renderBlock calls begun since stop() cleared is_running, this one included
RenderBegun == IF hpc = "stop_join" /\ since < 2 THEN since + 1 ELSE since

\* a drain that takes the newest event instead of the oldest
ThreadPopApplyNewest(t) ==
    /\ tpc[t] = "pop"
    /\ IF csound_event_queue # <<>>
       THEN /\ applied' = Append(applied,
                                 csound_event_queue[Len(csound_event_queue)])
            /\ csound_event_queue' =
                   SubSeq(csound_event_queue, 1, Len(csound_event_queue) - 1)
            /\ \E r \in Results : apply_err' = AfterApply(r)
            /\ UNCHANGED <<tpc, since>>
       ELSE /\ tpc' = [tpc EXCEPT ![t] = "render"]
            /\ since' = RenderBegun
            /\ UNCHANGED <<applied, csound_event_queue, apply_err>>
    /\ UNCHANGED <<is_running, is_finished, hostVars, discarded, pushVars,
                   planVars, born>>

\* a drain written with if instead of while: one event, then the block
ThreadPopApplyOne(t) ==
    /\ tpc[t] = "pop"
    /\ IF csound_event_queue # <<>>
       THEN /\ applied' = Append(applied, QueueFront(csound_event_queue))
            /\ csound_event_queue' = QueuePop(csound_event_queue)
            /\ \E r \in Results : apply_err' = AfterApply(r)
       ELSE UNCHANGED <<applied, csound_event_queue, apply_err>>
    /\ tpc' = [tpc EXCEPT ![t] = "render"]
    /\ since' = RenderBegun
    /\ UNCHANGED <<is_running, is_finished, hostVars, discarded, pushVars,
                   planVars, born>>

\* lines 204-210: one pop; the event popped is applied, the value it returns
\* (0, or an error code) is dropped, and the event is deleted.  When the
\* queue is empty the drain ends and csoundPerformKsmps is called.
ThreadPopApply(t) ==
    /\ tpc[t] = "pop"
    /\ IF csound_event_queue # <<>>
       THEN /\ applied' = Append(applied, QueueFront(csound_event_queue))
            /\ csound_event_queue' = QueuePop(csound_event_queue)
            /\ \E r \in Results : apply_err' = AfterApply(r)
            /\ UNCHANGED <<tpc, since>>
       ELSE /\ tpc' = [tpc EXCEPT ![t] = "render"]
            /\ since' = RenderBegun
            /\ UNCHANGED <<applied, csound_event_queue, apply_err>>
    /\ UNCHANGED <<is_running, is_finished, hostVars, discarded, pushVars,
                   planVars, born>>

\* line 211: csoundPerformKsmps(csound) returns and is_finished takes its
\* value
ThreadRender(t) ==
    /\ tpc[t] = "render"
    /\ \E r \in {0, 1} : is_finished' = [is_finished EXCEPT ![t] = r]
    /\ tpc' = [tpc EXCEPT ![t] = "while"]
    /\ UNCHANGED <<is_running, csound_event_queue, hostVars, logVars, pushVars,
                   planVars, born, histVars>>

\* an exit path that cleans up and goes on to the final drain without
\* resetting the Engine
ThreadCleanupSkipReset(t) ==
    /\ tpc[t] = "cleanup"
    /\ tpc' = [tpc EXCEPT ![t] = "fpop"]
    /\ UNCHANGED <<is_running, csound_event_queue, is_finished, hostVars,
                   logVars, pushVars, planVars, born, histVars>>

\* line 213: int result = csoundCleanup(csound)
ThreadCleanup(t) ==
    /\ tpc[t] = "cleanup"
    /\ tpc' = [tpc EXCEPT ![t] = "reset"]
    /\ UNCHANGED <<is_running, csound_event_queue, is_finished, hostVars,
                   logVars, pushVars, planVars, born, histVars>>

\* line 214: csoundReset(csound)
ThreadReset(t) ==
    /\ tpc[t] = "reset"
    /\ tpc' = [tpc EXCEPT ![t] = "fpop"]
    /\ UNCHANGED <<is_running, csound_event_queue, is_finished, hostVars,
                   logVars, pushVars, planVars, born, histVars>>

\* a final drain written with if instead of while
ThreadPopDiscardOnce(t) ==
    /\ tpc[t] = "fpop"
    /\ IF csound_event_queue # <<>>
       THEN /\ discarded' = Append(discarded, QueueFront(csound_event_queue))
            /\ csound_event_queue' = QueuePop(csound_event_queue)
       ELSE UNCHANGED <<discarded, csound_event_queue>>
    /\ tpc' = [tpc EXCEPT ![t] = "ret"]
    /\ UNCHANGED <<is_running, is_finished, hostVars, applied, pushVars,
                   planVars, born, histVars>>

\* lines 216-222: one pop of the final drain; the event is only deleted
ThreadPopDiscard(t) ==
    /\ tpc[t] = "fpop"
    /\ IF csound_event_queue # <<>>
       THEN /\ discarded' = Append(discarded, QueueFront(csound_event_queue))
            /\ csound_event_queue' = QueuePop(csound_event_queue)
            /\ UNCHANGED tpc
       ELSE /\ tpc' = [tpc EXCEPT ![t] = "ret"]
            /\ UNCHANGED <<discarded, csound_event_queue>>
    /\ UNCHANGED <<is_running, is_finished, hostVars, applied, pushVars,
                   planVars, born, histVars>>

\* line 222: return result; the std::thread ends and becomes joinable-done
ThreadReturn(t) ==
    /\ tpc[t] = "ret"
    /\ tpc' = [tpc EXCEPT ![t] = "done"]
    /\ UNCHANGED <<is_running, csound_event_queue, is_finished, hostVars,
                   logVars, pushVars, planVars, born, histVars>>

ThreadStep(t) ==
    \/ ThreadEnter(t)
    \/ ThreadWhile(t)
    \/ ThreadPopApply(t)
    \/ ThreadRender(t)
    \/ ThreadCleanup(t)
    \/ ThreadReset(t)
    \/ ThreadPopDiscard(t)
    \/ ThreadReturn(t)

\* ------------------------------------------------------ host lifecycle
AnyActive == \E t \in Threads : Active(t)

\* hret while a call is in progress, with whether a performance thread was
\* active when the call was made
Calling == [op |-> "calling", val |-> 0, active |-> AnyActive]
Returned(op, v) == [hret EXCEPT !.op = op, !.val = v]

CallStop ==
    /\ hpc = "idle"
    /\ hop' = "stop"
    /\ hpc' = "stop_read"
    /\ hret' = Calling
    /\ UNCHANGED <<csound, is_running, csound_event_queue, performance_thread,
                   temp, nthreads, ncreated, destroyCount, threadVars,
                   logVars, pushVars, planVars, born, histVars>>

\* a perform() that spawns without calling stop() first
CallPerformNoStop ==
    /\ hpc = "idle"
    /\ nthreads < performs
    /\ hop' = "perform"
    /\ hpc' = "stop_ret"
    /\ born' = [born EXCEPT ![nthreads + 1] = (hret.op = "stop")]
    /\ hret' = Calling
    /\ UNCHANGED <<csound, is_running, csound_event_queue, performance_thread,
                   temp, nthreads, ncreated, destroyCount, threadVars,
                   logVars, pushVars, planVars, histVars>>

\* lines 379-381: perform() begins with stop()
CallPerform ==
    /\ hpc = "idle"
    /\ nthreads < performs
    /\ hop' = "perform"
    /\ hpc' = "stop_read"
    /\ born' = [born EXCEPT ![nthreads + 1] = (hret.op = "stop")]
    /\ hret' = Calling
    /\ UNCHANGED <<csound, is_running, csound_event_queue, performance_thread,
                   temp, nthreads, ncreated, destroyCount, threadVars,
                   logVars, pushVars, planVars, histVars>>

\* destroy(), entered directly, from create() or from ~CSound()
EnterDestroy(op) ==
    /\ hpc = "idle"
    /\ op = "create" => ncreated < MaxCreate
    /\ hop' = op
    /\ hpc' = IF csound # 0 THEN "stop_read" ELSE "destroy_ret"
    /\ hret' = Calling
    /\ UNCHANGED <<csound, is_running, csound_event_queue, performance_thread,
                   temp, nthreads, ncreated, destroyCount, threadVars,
                   logVars, pushVars, planVars, born, histVars>>

CallDestroy == EnterDestroy("destroy")
CallCreate == EnterDestroy("create")
CallDtor == EnterDestroy("dtor")

\* line 454
StopRead ==
    /\ hpc = "stop_read"
    /\ temp' = is_running
    /\ hpc' = "stop_write"
    /\ UNCHANGED <<csound, is_running, csound_event_queue, performance_thread,
                   hop, hret, nthreads, ncreated, destroyCount, threadVars,
                   logVars, pushVars, planVars, born, histVars>>

\* a stop() that leaves is_running as it is
StopWriteKeep ==
    /\ hpc = "stop_write"
    /\ hpc' = IF performance_thread # 0 THEN "stop_join" ELSE "stop_ret"
    /\ UNCHANGED <<csound, is_running, csound_event_queue, performance_thread,
                   hop, temp, hret, nthreads, ncreated, destroyCount,
                   threadVars, logVars, pushVars, planVars, born, histVars>>

\* a stop() that also throws away the commands still queued
StopWriteFlush ==
    /\ hpc = "stop_write"
    /\ is_running' = 0
    /\ csound_event_queue' = <<>>
    /\ hpc' = IF performance_thread # 0 THEN "stop_join" ELSE "stop_ret"
    /\ since' = 0
    /\ UNCHANGED <<csound, performance_thread, hop, temp, hret, nthreads,
                   ncreated, destroyCount, threadVars, logVars, pushVars,
                   planVars, born, apply_err>>

\* lines 455-456
StopWrite ==
    /\ hpc = "stop_write"
    /\ is_running' = 0
    /\ hpc' = IF performance_thread # 0 THEN "stop_join" ELSE "stop_ret"
    /\ since' = 0
    /\ UNCHANGED <<csound, csound_event_queue, performance_thread, hop, temp,
                   hret, nthreads, ncreated, destroyCount, threadVars,
                   logVars, pushVars, planVars, born, apply_err>>

\* a stop() that drops the thread handle without waiting for the routine
StopDetach ==
    /\ hpc = "stop_join"
    /\ performance_thread' = 0
    /\ hpc' = "stop_ret"
    /\ UNCHANGED <<csound, is_running, csound_event_queue, hop, temp, hret,
                   nthreads, ncreated, destroyCount, threadVars, logVars,
                   pushVars, planVars, born, histVars>>

\* lines 457-461: join() returns once the routine has returned
StopJoin ==
    /\ hpc = "stop_join"
    /\ tpc[performance_thread] = "done"
    /\ tpc' = [tpc EXCEPT ![performance_thread] = "joined"]
    /\ performance_thread' = 0
    /\ hpc' = "stop_ret"
    /\ since' = 0
    /\ UNCHANGED <<csound, is_running, csound_event_queue, is_finished, hop,
                   temp, hret, nthreads, ncreated, destroyCount, logVars,
                   pushVars, planVars, born, apply_err>>

\* line 463, stop() called by the host itself
StopReturn ==
    /\ hpc = "stop_ret"
    /\ hop = "stop"
    /\ hret' = Returned("stop", temp)
    /\ hop' = "none"
    /\ hpc' = "idle"
    /\ UNCHANGED <<csound, is_running, csound_event_queue, performance_thread,
                   temp, nthreads, ncreated, destroyCount, threadVars,
                   logVars, pushVars, planVars, born, histVars>>

\* lines 382-383, after perform()'s stop() has returned
PerformSpawn ==
    /\ hpc = "stop_ret"
    /\ hop = "perform"
    /\ nthreads' = nthreads + 1
    /\ tpc' = [tpc EXCEPT ![nthreads + 1] = "guard"]
    /\ performance_thread' = nthreads + 1
    /\ hret' = Returned("perform", nthreads + 1)
    /\ hop' = "none"
    /\ hpc' = "idle"
    /\ UNCHANGED <<csound, is_running, csound_event_queue, is_finished, temp,
                   ncreated, destroyCount, logVars, pushVars, planVars, born, histVars>>

\* line 265, after destroy()'s stop() has returned
DestroyEngine ==
    /\ hpc = "stop_ret"
    /\ hop \in {"destroy", "create", "dtor"}
    /\ destroyCount' = [destroyCount EXCEPT ![csound] = IF @ = 0 THEN 1 ELSE 2]
    /\ hpc' = "destroy_ret"
    /\ UNCHANGED <<csound, is_running, csound_event_queue, performance_thread,
                   hop, temp, hret, nthreads, ncreated, threadVars, logVars,
                   pushVars, planVars, born, histVars>>

DestroyReturn ==
    /\ hpc = "destroy_ret"
    /\ hop = "destroy"
    /\ hret' = Returned("destroy", 0)
    /\ hop' = "none"
    /\ hpc' = "idle"
    /\ UNCHANGED <<csound, is_running, csound_event_queue, performance_thread,
                   temp, nthreads, ncreated, destroyCount, threadVars,
                   logVars, pushVars, planVars, born, histVars>>

\* lines 257-258
CreateEngine ==
    /\ hpc = "destroy_ret"
    /\ hop = "create"
    /\ ncreated' = ncreated + 1
    /\ csound' = ncreated + 1
    /\ hret' = Returned("create", ncreated + 1)
    /\ hop' = "none"
    /\ hpc' = "idle"
    /\ UNCHANGED <<is_running, csound_event_queue, performance_thread, temp,
                   nthreads, destroyCount, threadVars, logVars, pushVars,
                   planVars, born, histVars>>

\* ~CSound() returns: the controller is gone
DtorReturn ==
    /\ hpc = "destroy_ret"
    /\ hop = "dtor"
    /\ hret' = Returned("dtor", 0)
    /\ hop' = "none"
    /\ hpc' = "dead"
    /\ UNCHANGED <<csound, is_running, csound_event_queue, performance_thread,
                   temp, nthreads, ncreated, destroyCount, threadVars,
                   logVars, pushVars, planVars, born, histVars>>

\* ------------------------------------------------------- specifications
\* the whole lifecycle, with a producer submitting score text
Next ==
    \/ \E p \in Pushers : readScore(p)
    \/ \E t \in Threads : ThreadStep(t)
    \/ CallStop
    \/ CallPerform
    \/ CallDestroy
    \/ CallCreate
    \/ CallDtor
    \/ StopRead
    \/ StopWrite
    \/ StopJoin
    \/ StopReturn
    \/ PerformSpawn
    \/ DestroyEngine
    \/ DestroyReturn
    \/ CreateEngine
    \/ DtorReturn

Spec == Init /\ [][Next]_vars

\* the lifecycle calls and the performance threads alone
NextLifecycle ==
    \/ \E t \in Threads : ThreadStep(t)
    \/ CallStop
    \/ CallPerform
    \/ CallDestroy
    \/ CallCreate
    \/ CallDtor
    \/ StopRead
    \/ StopWrite
    \/ StopJoin
    \/ StopReturn
    \/ PerformSpawn
    \/ DestroyEngine
    \/ DestroyReturn
    \/ CreateEngine
    \/ DtorReturn

SpecLifecycle == InitLifecycle /\ [][NextLifecycle]_vars

\* scheduling: a started std::thread keeps running (every engine call
\* returns), and the host thread keeps executing the call it is in
HostInCall ==
    \/ StopRead
    \/ StopWrite
    \/ StopJoin
    \/ StopReturn
    \/ PerformSpawn
    \/ DestroyEngine
    \/ DestroyReturn
    \/ CreateEngine
    \/ DtorReturn

Fairness ==
    /\ \A t \in Threads : WF_vars(ThreadStep(t))
    /\ WF_vars(HostInCall)

FairSpec == Init /\ [][Next]_vars /\ Fairness

\* perform / stop only, on an engine that exists; the host submits score
\* text and score events
NextHost ==
    \/ \E p \in Pushers : readScore(p)
    \/ \E p \in Pushers : scoreEvent(p)
    \/ \E t \in Threads : ThreadStep(t)
    \/ CallStop
    \/ CallPerform
    \/ StopRead
    \/ StopWrite
    \/ StopJoin
    \/ StopReturn
    \/ PerformSpawn

SpecHost == InitHost /\ [][NextHost]_vars

\* perform / stop only, on an engine that exists; the producers submit
\* score text
NextProducers ==
    \/ \E p \in Pushers : readScore(p)
    \/ \E t \in Threads : ThreadStep(t)
    \/ CallStop
    \/ CallPerform
    \/ StopRead
    \/ StopWrite
    \/ StopJoin
    \/ StopReturn
    \/ PerformSpawn

SpecProducers == InitProducers /\ [][NextProducers]_vars

\* ----------------------------------------------------------- properties
RECURSIVE SumOver(_, _)
SumOver(f, S) ==
    IF S = {} THEN 0
    ELSE LET x == CHOOSE y \in S : TRUE IN f[x] + SumOver(f, S \ {x})

\* every event that has left a submit call, wherever it is now
Dequeued == applied \o discarded
Everywhere == Dequeued \o csound_event_queue
Occurrences(seq, id) == Cardinality({i \in 1..Len(seq) : Id(seq[i]) = id})
AllSubmitted == \A p \in Pushers : sent[p] = quota[p]

\* C1: the events one single host thread submitted with readScore and
\* scoreEvent are applied to the Engine in the order that thread submitted
\* them: of two applied events of the host, the one submitted first is
\* applied first.
C1_SingleThreadOrder ==
    \A i, j \in 1..Len(applied) :
        (i < j /\ applied[i].src = Host /\ applied[j].src = Host)
            => applied[i].n < applied[j].n

\* the host's readScore and scoreEvent events have both been applied, and a
\* third after them
C1_Witness ==
    /\ Len(applied) = 3
    /\ \A i \in 1..3 : applied[i].src = Host
    /\ \E i, j \in 1..3 : applied[i].kind = "Score" /\ applied[j].kind = "ScoreEvent"

\* C2: every call to stop() eventually returns: whenever the host is inside
\* stop() (called directly or from perform() or destroy()), it eventually
\* leaves it, given that every engine call returns and the threads keep
\* being scheduled.
C2_StopReturns == InStop ~> ~InStop

\* C3: an event pushed after stop() has begun and before the performance
\* thread has exited is, once destroy() has returned, applied exactly once
\* or discarded exactly once, and is not left in the queue.
C3_LateEventsSettled ==
    hret.op = "destroy"
        => \A id \in late : /\ Occurrences(Dequeued, id) = 1
                            /\ Occurrences(csound_event_queue, id) = 0

\* C4: no event is dequeued twice: every submitted event occurs at most once
\* among the events applied and the events discarded together, and an event
\* that was dequeued is no longer in the queue.
C4_NoDoubleDelivery ==
    \A c \in calls : Occurrences(Everywhere, <<c.src, c.n>>) <= 1

\* events of both producers have been applied by the loop's drain and others
\* deleted by the final drain
C4_Witness ==
    /\ \E i, j \in 1..Len(applied) : applied[i].src = "p1" /\ applied[j].src = "p2"
    /\ Len(discarded) >= 2

\* C5: when every producer has made all its submissions while the loop was
\* running and before stop() was called, then once stop() has returned the
\* events applied plus the events discarded are exactly the events
\* submitted, and none is left in the queue.
C5_Conservation ==
    (hret.op = "stop" /\ AllSubmitted /\ ~stray /\ late = {})
        => /\ Len(applied) + Len(discarded) = SumOver(sent, Pushers)
           /\ csound_event_queue = <<>>

\* stop() has returned after a run in which both producers submitted their
\* whole quota; some events were applied and some discarded
C5_Witness ==
    /\ hret.op = "stop" /\ AllSubmitted /\ ~stray /\ late = {}
    /\ Cardinality(Producers) * PerProducer = SumOver(sent, Pushers)
    /\ Len(applied) > 0
    /\ Len(discarded) > 1

\* C6: with several producers pushing concurrently, each producer's own
\* events are applied in the order that producer submitted them, whatever
\* the interleaving with the other producers and with the drain.
C6_PerProducerOrder ==
    \A p \in Producers :
        \A i, j \in 1..Len(applied) :
            (i < j /\ applied[i].src = p /\ applied[j].src = p)
                => applied[i].n < applied[j].n

\* two producers' events were applied interleaved with each other
C6_Witness ==
    /\ Len(applied) >= 4
    /\ applied[1].src = "p1" /\ applied[2].src = "p2"
    /\ applied[3].src = "p1" /\ applied[4].src = "p2"

\* C7: after stop() has returned, the thread handle is null and every
\* thread that was spawned has been joined; the routine of a thread spawned
\* by a perform() that follows a returned stop() passes its entry guard and
\* sets is_running, and while no later host call has begun its first loop
\* test succeeds, so the drain-and-render loop is entered.
C7_StoppedThenRestartable ==
    /\ [](hret.op = "stop"
            => performance_thread = 0 /\ \A t \in Threads : ~Unjoined(t))
    /\ [][\A t \in Threads :
            /\ (tpc[t] = "guard" /\ tpc'[t] # "guard" /\ born[t])
                  => (tpc'[t] = "while" /\ is_running' = 1)
            /\ (tpc[t] = "while" /\ tpc'[t] # "while" /\ is_finished[t] = 0
                   /\ born[t] /\ hret.op = "perform" /\ hret.val = t)
                  => tpc'[t] = "pop"]_vars

\* stop() returned, then perform() was called, and the second thread is
\* inside the loop while the first one has been joined
C7_Witness ==
    /\ hret.op = "perform" /\ born[2] /\ hret.val = 2
    /\ tpc[1] = "joined"
    /\ tpc[2] = "pop"

\* C8: every scoreEvent(opcode, pfields, pfield_count) call has put exactly
\* one ScoreEvent event in the queue, with the given opcode and with
\* pfields equal to the first pfield_count values of the caller's buffer;
\* that is what the Engine receives when the event is applied.
C8_ScoreEventCopiesPfields ==
    \A c \in calls :
        c.kind = "ScoreEvent" =>
            /\ Occurrences(Everywhere, <<c.src, c.n>>) = 1
            /\ \A i \in 1..Len(Everywhere) :
                  Id(Everywhere[i]) = <<c.src, c.n>> =>
                      /\ Everywhere[i].kind = "ScoreEvent"
                      /\ Everywhere[i].opcode = c.opcode
                      /\ Everywhere[i].pfields = SubSeq(Buffer, 1, c.count)

\* C9 as claimed: perform() called while a performance thread is active
\* fails: it returns no thread handle and spawns nothing.
C9_PerformWhileRunningFails ==
    (hret.op = "perform" /\ hret.active) => hret.val = 0

\* C9 as amended: perform() called while a performance thread is active is
\* accepted: when it returns, every thread spawned before has been joined,
\* and a new thread has been spawned whose handle is returned and stored.
C9_PerformWhileRunningRestarts ==
    (hret.op = "perform" /\ hret.active)
        => /\ hret.val > 0
           /\ performance_thread = hret.val
           /\ tpc[hret.val] # "unborn"
           /\ \A t \in Threads \ {hret.val} : ~Unjoined(t)

\* perform() was called while the first thread was active; the first thread
\* has been joined and the second is inside the loop
C9_Witness ==
    /\ hret.op = "perform" /\ hret.active /\ hret.val = 2
    /\ tpc[1] = "joined"
    /\ tpc[2] = "pop"

\* C10: csoundDestroy is never called while a performance thread is active,
\* and once destroy() or the destructor has returned every thread that was
\* spawned has been joined.
C10_JoinBeforeFree ==
    /\ [][destroyCount' # destroyCount => ~AnyActive]_vars
    /\ [](hret.op \in {"destroy", "dtor"} => \A t \in Threads : ~Unjoined(t))

\* C11: stop() called on a controller whose performance thread was never
\* started returns 0, and no step of it reaches the join, calls the Engine
\* (no command applied, no thread step rendering / cleaning up / resetting,
\* no csoundCreate or csoundDestroy) or changes the queue or the engine
\* handle.
C11_StopNeverStarted ==
    /\ []((hret.op = "stop" /\ nthreads = 0) => hret.val = 0)
    /\ [][(hop = "stop" /\ nthreads = 0 /\ hpc' # hpc)
            => /\ hpc' # "stop_join"
               /\ csound_event_queue' = csound_event_queue
               /\ csound' = csound
               /\ applied' = applied /\ discarded' = discarded
               /\ tpc' = tpc
               /\ destroyCount' = destroyCount /\ ncreated' = ncreated]_vars

\* stop() has returned 0 on a controller that holds an engine and two queued
\* commands and never started a thread
C11_Witness ==
    /\ hret.op = "stop" /\ hret.val = 0
    /\ nthreads = 0
    /\ csound # 0
    /\ Len(csound_event_queue) >= 2
    /\ applied = <<>> /\ discarded = <<>>

\* C12: a command the host submitted with readScore or scoreEvent while no
\* performance thread was active is in exactly one place; it is still in the
\* queue as long as perform() has not spawned a thread, and whenever a
\* performance thread is at a renderBlock call (its first one included) the
\* command has already been applied.
C12_EarlyAppliedBeforeFirstBlock ==
    \A id \in early :
        /\ Occurrences(Everywhere, id) = 1
        /\ nthreads = 0 => Occurrences(csound_event_queue, id) = 1
        /\ \A t \in Threads :
              tpc[t] = "render" => Occurrences(applied, id) = 1

\* the thread is at its first renderBlock call and has applied exactly the
\* commands, of both kinds, that were submitted before perform()
C12_Witness ==
    /\ tpc[1] = "render"
    /\ Cardinality(early) >= 2
    /\ Len(applied) = Cardinality(early)
    /\ \A i \in 1..Len(applied) : Id(applied[i]) \in early
    /\ \E i, j \in 1..Len(applied) :
          applied[i].kind = "Score" /\ applied[j].kind = "ScoreEvent"
    /\ csound_event_queue = <<>>

\* C13: at most one performance thread is active at any time; a thread is
\* spawned, and the thread handle given a new thread, only when the handle
\* is null and every thread spawned before has been joined; and the handle
\* is nulled only for a thread that has been joined.
C13_OneThreadAtATime ==
    /\ [](Cardinality({t \in Threads : Active(t)}) <= 1)
    /\ [][/\ ((nthreads' # nthreads
                \/ (performance_thread' # performance_thread
                       /\ performance_thread' # 0))
               => (performance_thread = 0
                     /\ \A t \in Threads : ~Unjoined(t)))
           /\ ((performance_thread' # performance_thread
                   /\ performance_thread # 0)
               => tpc'[performance_thread] = "joined")]_vars

\* after create() and two perform() calls the first thread has been joined
\* and the second one is rendering
C13_Witness ==
    /\ ncreated = 1
    /\ nthreads = 2
    /\ performance_thread = 2
    /\ tpc[1] = "joined"
    /\ tpc[2] = "render"

\* C14: a command is applied only by a thread in its drain, which applies
\* the oldest command queued and stays in the drain, and never while a
\* renderBlock call is in progress; the drain is left only when the queue
\* is empty, and only for the renderBlock call; after that one call comes
\* the loop test.
C14_DrainThenOneBlock ==
    [][/\ (applied' # applied
             => /\ csound_event_queue # <<>>
                /\ applied' = Append(applied, Head(csound_event_queue))
                /\ csound_event_queue' = Tail(csound_event_queue)
                /\ \E t \in Threads : tpc[t] = "pop" /\ tpc'[t] = "pop"
                /\ \A t \in Threads : tpc[t] # "render")
       /\ \A t \in Threads :
             /\ (tpc[t] = "pop" /\ tpc'[t] # "pop")
                   => (tpc'[t] = "render" /\ csound_event_queue = <<>>)
             /\ (tpc[t] # "render" /\ tpc'[t] = "render") => tpc[t] = "pop"
             /\ (tpc[t] = "render" /\ tpc'[t] # "render")
                   => tpc'[t] = "while"]_vars

\* a renderBlock call is in progress after three commands of the two
\* producers were applied, and a command pushed since then is waiting
C14_Witness ==
    /\ tpc[1] = "render"
    /\ Len(applied) = 3
    /\ \E i, j \in 1..3 : applied[i].src = "p1" /\ applied[j].src = "p2"
    /\ Len(csound_event_queue) = 1

\* C15: a thread leaves the loop only from the loop test and only to
\* csoundCleanup; csoundReset follows, then the final drain, which is left
\* only when the queue is empty and only to return; a command is discarded
\* only by a thread in its final drain, which deletes the oldest command
\* queued without applying it; and while a thread is past csoundCleanup no
\* command is applied.
C15_ExitCleanupResetDrain ==
    [][/\ \A t \in Threads :
             /\ (InLoop(t) /\ ~InLoop(t)')
                   => (tpc[t] = "while" /\ tpc'[t] = "cleanup")
             /\ (tpc[t] = "cleanup" /\ tpc'[t] # "cleanup") => tpc'[t] = "reset"
             /\ (tpc[t] = "reset" /\ tpc'[t] # "reset") => tpc'[t] = "fpop"
             /\ (tpc[t] = "fpop" /\ tpc'[t] # "fpop")
                   => (tpc'[t] = "ret" /\ csound_event_queue = <<>>)
             /\ (tpc[t] = "ret" /\ tpc'[t] # "ret") => tpc'[t] = "done"
       /\ (discarded' # discarded
             => /\ csound_event_queue # <<>>
                /\ discarded' = Append(discarded, Head(csound_event_queue))
                /\ csound_event_queue' = Tail(csound_event_queue)
                /\ applied' = applied
                /\ \E t \in Threads : tpc[t] = "fpop" /\ tpc'[t] = "fpop")
       /\ ((\E t \in Threads : tpc[t] \in {"reset", "fpop", "ret"})
             => applied' = applied)]_vars

\* a thread has finished its final drain, in which it discarded two
\* commands, after a loop in which it applied others
C15_Witness ==
    /\ tpc[1] = "ret"
    /\ Len(discarded) >= 2
    /\ Len(applied) >= 1
    /\ csound_event_queue = <<>>

\* C16: the loop test sends the thread to csoundCleanup exactly when
\* is_running is no longer 1 (stop() has cleared it) or the last
\* csoundPerformKsmps returned non-zero, and into the next iteration
\* otherwise; a thread whose csoundPerformKsmps has returned non-zero is
\* never again in the drain or at a renderBlock call.
C16_ExitWhenStoppedOrFinished ==
    /\ [](\A t \in Threads : tpc[t] \in {"pop", "render"} => is_finished[t] = 0)
    /\ [][\A t \in Threads :
            (tpc[t] = "while" /\ tpc'[t] # "while")
                => /\ tpc'[t] \in {"pop", "cleanup"}
                   /\ tpc'[t] = "cleanup"
                        <=> (is_running # 1 \/ is_finished[t] # 0)]_vars

\* the first thread left the loop because stop() cleared is_running, the
\* second because the Engine reported the performance finished
C16_Witness ==
    /\ tpc[1] = "joined" /\ is_finished[1] = 0
    /\ tpc[2] = "cleanup" /\ is_finished[2] = 1
    /\ is_running = 1

\* C17: after stop() has cleared is_running, and for as long as that stop()
\* has not finished its join, the performance thread begins at most one
\* renderBlock call.
C17_AtMostOneBlockAfterStop == since <= 1

\* C18: once a command applied in an iteration has returned an error code,
\* the thread's next step in the drain still applies the oldest command
\* queued, or with the queue empty goes on to the renderBlock call; the
\* call is followed by the loop test, and the loop test decides by
\* is_running and the renderBlock result alone.
C18_ApplyErrorIgnored ==
    [][\A t \in Threads :
         apply_err > 0 =>
            /\ (tpc[t] = "pop" /\ (tpc'[t] # "pop" \/ applied' # applied))
                  => IF csound_event_queue # <<>>
                     THEN /\ applied' = Append(applied, Head(csound_event_queue))
                          /\ tpc'[t] = "pop"
                     ELSE /\ applied' = applied
                          /\ tpc'[t] = "render"
            /\ (tpc[t] = "render" /\ tpc'[t] # "render") => tpc'[t] = "while"
            /\ (tpc[t] = "while" /\ tpc'[t] # "while")
                  => IF is_running = 1 /\ is_finished[t] = 0
                     THEN tpc'[t] = "pop" ELSE tpc'[t] = "cleanup"]_vars

\* a command returned an error code, another command was applied after it in
\* the same drain, the block was rendered, and the thread is at the loop test
\* with is_running and the renderBlock result both telling it to go on
C18_Witness ==
    /\ apply_err = 2
    /\ tpc[1] = "while"
    /\ is_running = 1 /\ is_finished[1] = 0
    /\ Len(applied) >= 2

\* C19: csoundDestroy is called at most once on each engine handle, and when
\* destroy() has returned the controller holds no engine handle.
C19_DestroyedOnce ==
    /\ \A e \in Engines : destroyCount[e] <= 1
    /\ hret.op = "destroy" => csound = 0

\* C20: whenever the host is between calls, a thread has been spawned and no
\* thread is at the entry guard or inside the loop, is_running (what
\* isPerforming() returns) is 0; and a stop() that has returned returned
\* non-zero exactly when a performance thread was active when it was called.
C20_FlagAgreesWithThread ==
    /\ (hpc = "idle" /\ nthreads > 0
          /\ \A t \in Threads : tpc[t] # "guard" /\ ~InLoop(t))
         => is_running = 0
    /\ hret.op = "stop" => (hret.val # 0 <=> hret.active)

====
